---- MODULE Spec2Model ----
(***************************************************************************)
(* boost::math::optimization::differential_evolution                       *)
(* (include/boost/math/optimization/differential_evolution.hpp) as a state *)
(* machine: the calling thread's position in the function, the workers of  *)
(* the current evaluation phase, and the memory they share.                *)
(*                                                                         *)
(* Numbers.  Real (the coordinate type) is a grid of integers; a product   *)
(* with the mutation factor is rounded to the nearest grid point, as a     *)
(* floating-point product is rounded to the nearest representable value.   *)
(* ResultType (the cost type) is 0..MaxCost with -infinity, +infinity and  *)
(* NaN, compared as IEEE 754 compares them.  The URBG is a Lehmer          *)
(* generator (the family of std::minstd_rand) of modulus 11.               *)
(***************************************************************************)
EXTENDS Integers, Sequences, FiniteSets, Bags, TLC

\* ------------------------------------------------------------------ bounds
Dim == 2                 \* dimension of the search space
LowerBound == 0          \* lower bound of every dimension
UpperBound == 1          \* upper bound of every dimension
MaxCost == 1             \* finite costs are 0..MaxCost
MaxGenerations == 2      \* largest max_generations a call is made with
MaxThreads == 2          \* largest thread count a call is made with
ManyThreads == 5         \* a thread count above the population size

\* ------------------------------------------------------- ResultType values
PosInf == MaxCost + 1
NegInf == -(MaxCost + 1)
NaN == MaxCost + 2
FiniteCosts == 0..MaxCost
CostValues == FiniteCosts \cup {NegInf, PosInf, NaN}

isnan(a) == a = NaN
\* a < b on ResultType: false as soon as one side is NaN
Less(a, b) == ~isnan(a) /\ ~isnan(b) /\ a < b
\* a <= b on ResultType
LessEq(a, b) == ~isnan(a) /\ ~isnan(b) /\ a <= b
isfinite(a) == a \in FiniteCosts

\* -------------------------------------------------------------- the URBG
\* gen(): the generator's next state, which is also its output (1..10)
GenNext(g) == (2 * g) % 11
\* URBG::min() and the number of values in min()..max()
GenMin == 1
GenRange == 10
Seeds == GenMin..(GenMin + GenRange - 1)
\* the state after n calls
RECURSIVE GenAfter(_, _)
GenAfter(g, n) == IF n = 0 THEN g ELSE GenAfter(GenNext(g), n - 1)
\* the n-th output (n >= 1) from state g
GenOut(g, n) == GenAfter(g, n)
\* uniform_real_distribution<Real>(0, 1) on one output: the numerator of
\* (g - min) / (max - min + 1), a value of [0, 1) in units of 1 / GenRange
unif01(g) == g - GenMin

\* ------------------------------------------------------- Real arithmetic
\* mutation factors and crossover probabilities are numerators: F = f / 2,
\* CR = cr / GenRange
\* round to nearest, halves away from zero, of n / d (d > 0)
RoundDiv(n, d) == IF n >= 0 THEN (2 * n + d) \div (2 * d)
                  ELSE -((2 * (-n) + d) \div (2 * d))
\* no clamping
clampNothing(v, lo, hi) == v
clamp(v, lo, hi) == IF v < lo THEN lo ELSE IF hi < v THEN hi ELSE v

\* ---------------------------------------------------------------- state
VARIABLES
  de_params,             \* differential_evolution_parameters
  cost_function,         \* the objective, on the candidates it was asked for
  gen,                   \* the caller's generator (its state)
  target_value,
  cancellation,          \* [given, flag]: std::atomic<bool> *
  queries,               \* [given, log]: the query log, a bag of <<x, cost>>
  current_minimum_cost,  \* [given, value]: std::atomic<ResultType> *
  population, cost, trial_vectors, target_attained,
  thread_pool,           \* worker j -> [pc, i, trial_cost, seen]
  pc,                    \* where the calling thread is
  generation, i, j, r1, r2, r3,
  it,                    \* the index std::min_element returned
  result,                \* the returned candidate
  thrown,                \* the exception that left the call, or "none"
  calls,                 \* how often cost_function was invoked
  evaluated,             \* bag of every <<x, cost>> cost_function produced
  run, seed, first       \* the caller repeating the call with the same seed

vars == <<de_params, cost_function, gen, target_value, cancellation, queries,
          current_minimum_cost, population, cost, trial_vectors,
          target_attained, thread_pool, pc, generation, i, j, r1, r2, r3, it,
          result, thrown, calls, evaluated, run, seed, first>>

\* the arguments of the call, which it never writes
args == <<de_params, cost_function, target_value>>
\* the calling thread's loop variables
locals == <<generation, i, j, r1, r2, r3>>
\* what the call leaves behind
outcome == <<it, result, thrown>>
\* the caller's repetition of the call
caller == <<run, seed, first>>

dimension == Len(de_params.lower_bounds)
NP == de_params.NP
threads == de_params.threads
Workers == 0..(threads - 1)
Slots == 0..(NP - 1)

\* ------------------------------------------------------------ candidates
\* the candidates within bounds lo and hi
Within(lo, hi) ==
  {x \in [1..Len(lo) -> LowerBound..(UpperBound + 1)] :
     \A d \in 1..Len(lo) : lo[d] <= x[d] /\ x[d] <= hi[d]}
NoCandidate == << >>
NoGuess == [given |-> FALSE, x |-> NoCandidate]
Guess(x) == [given |-> TRUE, x |-> x]

\* ------------------------------------------------------------ validation
\* detail::validate_bounds: the two arrays have one length, and lower < upper
\* in every dimension
BoundsError(lower, upper) ==
  \/ Len(lower) # Len(upper)
  \/ \E d \in 1..Len(lower) : lower[d] >= upper[d]

\* detail::validate_initial_guess: the guess has the bounds' dimension and
\* lies within them
GuessError(guess, lower, upper) ==
  \/ Len(guess) # Len(lower)
  \/ \E d \in 1..Len(guess) : guess[d] < lower[d] \/ guess[d] > upper[d]

\* the test without its upper limit
MutationFactorErrorNoUpper(F) == isnan(F) \/ F <= 0
\* mutation_factor (in halves): isnan(F) || F >= 1 || F <= 0
MutationFactorError(F) == isnan(F) \/ F >= 2 \/ F <= 0

\* validation that lets a population of three through
ValidationErrorNP3(p) ==
  IF BoundsError(p.lower_bounds, p.upper_bounds) THEN "bounds"
  ELSE IF p.NP < 3 THEN "invalid_argument"
  ELSE IF MutationFactorError(p.mutation_factor) THEN "domain_error"
  ELSE IF p.max_generations < 1 THEN "invalid_argument"
  ELSE IF p.initial_guess.given
          /\ GuessError(p.initial_guess.x, p.lower_bounds, p.upper_bounds)
       THEN "initial_guess"
  ELSE IF p.threads = 0 THEN "invalid_argument"
  ELSE "none"

\* validate_differential_evolution_parameters: the exception it throws, or
\* "none"; the checks in the order of the code
ValidationError(p) ==
  IF BoundsError(p.lower_bounds, p.upper_bounds) THEN "bounds"
  ELSE IF p.NP < 4 THEN "invalid_argument"
  ELSE IF MutationFactorError(p.mutation_factor) THEN "domain_error"
  ELSE IF p.max_generations < 1 THEN "invalid_argument"
  ELSE IF p.initial_guess.given
          /\ GuessError(p.initial_guess.x, p.lower_bounds, p.upper_bounds)
       THEN "initial_guess"
  ELSE IF p.threads = 0 THEN "invalid_argument"
  ELSE "none"

\* ---------------------------------------------------- population set-up
\* detail::random_initial_population: NP candidates, every coordinate drawn
\* with the generator within its bounds, slot after slot
RandomCoordinate(g, lo, hi) == lo + (unif01(g) % (hi - lo + 1))
random_initial_population(lower, upper, n, g) ==
  [s \in 0..(n - 1) |->
     [d \in 1..Len(lower) |->
        RandomCoordinate(GenOut(g, s * Len(lower) + d), lower[d], upper[d])]]

\* a worker that tests the cancellation flag before it starts
NewWorkerPolling(j0, at) ==
  [pc |-> IF j0 < NP /\ ~(cancellation.given /\ cancellation.flag)
          THEN at ELSE "done",
   i |-> j0, trial_cost |-> NaN]
\* the worker j of a phase: it starts at index j, or has nothing to do
NewWorker(j0, at) ==
  [pc |-> IF j0 < NP THEN at ELSE "done", i |-> j0, trial_cost |-> NaN]
Spawn(at) == [w \in Workers |-> NewWorker(w, at)]
\* no join at all
AllJoinedUnchecked == TRUE
AllJoined == \A w \in DOMAIN thread_pool : thread_pool[w].pc = "done"

\* one more entry in a bag
Push(bag, e) == bag (+) SetToBag({e})

\* ------------------------------------------------------------- the call
\* line 102: the parameters are validated before anything else
Validate ==
  /\ pc = "validate"
  /\ LET e == ValidationError(de_params) IN
       /\ thrown' = e
       /\ pc' = IF e = "none" THEN "populate" ELSE "thrown"
  /\ UNCHANGED <<args, gen, cancellation, queries, current_minimum_cost,
                 population, cost, trial_vectors, target_attained,
                 thread_pool, locals, it, result, calls, evaluated, caller>>

\* the random population alone, the initial guess forgotten
initial_populationUnguessed(g) ==
  random_initial_population(de_params.lower_bounds, de_params.upper_bounds,
                            NP, g)
\* lines 105-108: the random population, slot 0 replaced by the initial guess
initial_population(g) ==
  LET pop == random_initial_population(de_params.lower_bounds,
                                       de_params.upper_bounds, NP, g)
  IN IF de_params.initial_guess.given
     THEN [pop EXCEPT ![0] = de_params.initial_guess.x]
     ELSE pop

Populate ==
  /\ pc = "populate"
  /\ population' = initial_population(gen)
  /\ gen' = GenAfter(gen, NP * dimension)
  /\ cost' = [s \in Slots |-> NaN]
  /\ target_attained' = FALSE
  /\ thread_pool' = Spawn("initial")
  /\ pc' = "join_initial"
  /\ UNCHANGED <<args, cancellation, queries, current_minimum_cost,
                 trial_vectors, locals, outcome, calls, evaluated, caller>>

\* ------------------------------------------------ workers, initial scoring
\* what a worker does with the cost it computed for slot s, whatever the
\* phase: lines 128-134 (and 204-207, 210-212)
Logged(x, c) ==
  IF queries.given THEN [queries EXCEPT !.log = Push(@, <<x, c>>)] ELSE queries
TargetReached(c) == ~isnan(target_value) /\ LessEq(c, target_value)
\* the loop stepping to the next index, whoever owns it
AdvanceByOne(w, head) ==
  LET n == thread_pool[w].i + 1 IN
  IF n < NP THEN [pc |-> head, i |-> n, trial_cost |-> NaN]
  ELSE [pc |-> "done", i |-> n, trial_cost |-> NaN]
\* the worker's loop: the next index and the head of the body, or the end
Advance(w, head) ==
  LET n == thread_pool[w].i + threads IN
  IF n < NP THEN [pc |-> head, i |-> n, trial_cost |-> NaN]
  ELSE [pc |-> "done", i |-> n, trial_cost |-> NaN]
HintLower(c) ==
  current_minimum_cost.given /\ Less(c, current_minimum_cost.value)

\* cost_function is a function of the candidate alone (pure, deterministic):
\* any cost the first time a candidate is asked for, that cost ever after
Outcomes(x) ==
  IF x \in DOMAIN cost_function THEN {cost_function[x]} ELSE CostValues
Known(x, c) ==
  [y \in DOMAIN cost_function \cup {x} |->
     IF y \in DOMAIN cost_function THEN cost_function[y] ELSE c]

\* lines 124-125: the objective on population[i], its cost stored, and the
\* hint read; lines 128-134 follow at once when the hint is not to be written
InitialEvaluate(w) ==
  /\ pc = "join_initial"
  /\ w \in DOMAIN thread_pool
  /\ thread_pool[w].pc = "initial"
  /\ \E c \in Outcomes(population[thread_pool[w].i]) :
     LET s == thread_pool[w].i
     IN /\ cost' = [cost EXCEPT ![s] = c]
        /\ cost_function' = Known(population[s], c)
        /\ calls' = calls + 1
        /\ evaluated' = Push(evaluated, <<population[s], c>>)
        /\ IF HintLower(c)
           THEN /\ thread_pool' = [thread_pool EXCEPT ![w].pc = "initial_hint"]
                /\ UNCHANGED <<queries, target_attained>>
           ELSE /\ queries' = Logged(population[s], c)
                /\ target_attained' = (target_attained \/ TargetReached(c))
                /\ thread_pool' = [thread_pool EXCEPT ![w] = Advance(w, "initial")]
  /\ UNCHANGED <<de_params, target_value, gen, cancellation,
                 current_minimum_cost, population, trial_vectors, pc, locals,
                 outcome, caller>>

\* lines 126-134: the hint written, the query logged, the target tested
InitialHint(w) ==
  /\ pc = "join_initial"
  /\ w \in DOMAIN thread_pool
  /\ thread_pool[w].pc = "initial_hint"
  /\ LET s == thread_pool[w].i IN
       /\ current_minimum_cost' = [current_minimum_cost EXCEPT !.value = cost[s]]
       /\ queries' = Logged(population[s], cost[s])
       /\ target_attained' = (target_attained \/ TargetReached(cost[s]))
       /\ thread_pool' = [thread_pool EXCEPT ![w] = Advance(w, "initial")]
  /\ UNCHANGED <<args, gen, cancellation, population, cost, trial_vectors, pc,
                 locals, outcome, calls, evaluated, caller>>

\* lines 138-147: the workers joined, the trial vectors allocated
JoinInitial ==
  /\ pc = "join_initial"
  /\ AllJoined
  /\ trial_vectors' = [s \in Slots |-> [d \in 1..dimension |-> 0]]
  /\ generation' = 0
  /\ pc' = "loop"
  /\ UNCHANGED <<args, gen, cancellation, queries, current_minimum_cost,
                 population, cost, target_attained, thread_pool, i, j, r1, r2,
                 r3, outcome, calls, evaluated, caller>>
\* ------------------------------------------------------ the generations
Cancelled == cancellation.given /\ cancellation.flag

\* the loop's condition one generation short
LoopGuardOneShort ==
  /\ pc = "loop"
  /\ IF generation + 1 < de_params.max_generations /\ ~Cancelled /\ ~target_attained
     THEN pc' = "r1" /\ i' = 0
     ELSE pc' = "extract" /\ i' = i
  /\ UNCHANGED <<args, gen, cancellation, queries, current_minimum_cost,
                 population, cost, trial_vectors, target_attained,
                 thread_pool, generation, j, r1, r2, r3, outcome, calls,
                 evaluated, caller>>
\* lines 149-155: the loop's condition and its two breaks
LoopGuard ==
  /\ pc = "loop"
  /\ IF generation < de_params.max_generations /\ ~Cancelled /\ ~target_attained
     THEN pc' = "r1" /\ i' = 0
     ELSE pc' = "extract" /\ i' = i
  /\ UNCHANGED <<args, gen, cancellation, queries, current_minimum_cost,
                 population, cost, trial_vectors, target_attained,
                 thread_pool, generation, j, r1, r2, r3, outcome, calls,
                 evaluated, caller>>

\* lines 165-167: one turn of the first do-while
DrawR1 ==
  /\ pc = "r1"
  /\ gen' = GenNext(gen)
  /\ r1' = gen' % NP
  /\ pc' = IF r1' = i THEN "r1" ELSE "r2"
  /\ UNCHANGED <<args, cancellation, queries, current_minimum_cost, population,
                 cost, trial_vectors, target_attained, thread_pool, generation,
                 i, j, r2, r3, outcome, calls, evaluated, caller>>

\* r2 drawn again only when it is i
DrawR2AgainstIOnly ==
  /\ pc = "r2"
  /\ gen' = GenNext(gen)
  /\ r2' = gen' % NP
  /\ pc' = IF r2' = i THEN "r2" ELSE "r3"
  /\ UNCHANGED <<args, cancellation, queries, current_minimum_cost, population,
                 cost, trial_vectors, target_attained, thread_pool, generation,
                 i, j, r1, r3, outcome, calls, evaluated, caller>>
\* lines 168-170
DrawR2 ==
  /\ pc = "r2"
  /\ gen' = GenNext(gen)
  /\ r2' = gen' % NP
  /\ pc' = IF r2' = i \/ r2' = r1 THEN "r2" ELSE "r3"
  /\ UNCHANGED <<args, cancellation, queries, current_minimum_cost, population,
                 cost, trial_vectors, target_attained, thread_pool, generation,
                 i, j, r1, r3, outcome, calls, evaluated, caller>>

\* lines 171-173; the loop over the dimensions starts at j = 0
DrawR3 ==
  /\ pc = "r3"
  /\ gen' = GenNext(gen)
  /\ r3' = gen' % NP
  /\ IF r3' = i \/ r3' = r2 \/ r3' = r1
     THEN pc' = "r3" /\ j' = j
     ELSE pc' = "crossover" /\ j' = 0
  /\ UNCHANGED <<args, cancellation, queries, current_minimum_cost, population,
                 cost, trial_vectors, target_attained, thread_pool, generation,
                 i, r1, r2, outcome, calls, evaluated, caller>>

\* line 178: population[r1][j] + F * (population[r2][j] - population[r3][j]),
\* dimension d = j + 1 of the tuples
Mutant(a, b, c, d) ==
  population[a][d]
    + RoundDiv(de_params.mutation_factor * (population[b][d] - population[c][d]), 2)
\* line 183
ClampedMutant(a, b, c, d) ==
  clamp(Mutant(a, b, c, d), de_params.lower_bounds[d], de_params.upper_bounds[d])
\* line 176: the index drawn for dimension jj, from the generator's output g
guaranteed_changed_idx(g) == g % dimension
\* line 177: the test that gives dimension jj the mutant's coordinate
TakesMutant(u, idx, jj) == u < de_params.crossover_probability \/ jj = idx
\* lines 176-186 for dimension jj of slot s, the generator in state g
TrialCoordinate(s, jj, g) ==
  IF TakesMutant(unif01(GenOut(g, 2)), guaranteed_changed_idx(GenOut(g, 1)), jj)
  THEN ClampedMutant(r1, r2, r3, jj + 1)
  ELSE population[s][jj + 1]

\* lines 174-187: one dimension of one trial vector; after the last dimension
\* the next slot, after the last slot the workers
Crossover ==
  /\ pc = "crossover"
  /\ trial_vectors' = [trial_vectors EXCEPT ![i][j + 1] = TrialCoordinate(i, j, gen)]
  /\ gen' = GenAfter(gen, 2)
  /\ IF j + 1 < dimension
     THEN /\ j' = j + 1
          /\ UNCHANGED <<pc, i, r1, r2, r3>>
     ELSE /\ j' = 0 /\ r1' = 0 /\ r2' = 0 /\ r3' = 0
          /\ i' = i + 1
          /\ pc' = IF i + 1 < NP THEN "r1" ELSE "spawn"
  /\ UNCHANGED <<args, cancellation, queries, current_minimum_cost, population,
                 cost, target_attained, thread_pool, generation, outcome,
                 calls, evaluated, caller>>

\* lines 190-220: the pool emptied and refilled with this generation's workers
SpawnTrials ==
  /\ pc = "spawn"
  /\ thread_pool' = Spawn("check")
  /\ pc' = "join"
  /\ UNCHANGED <<args, gen, cancellation, queries, current_minimum_cost,
                 population, cost, trial_vectors, target_attained, locals,
                 outcome, calls, evaluated, caller>>

\* lines 194-199: a worker returns when it sees a flag set
TrialCheck(w) ==
  /\ pc = "join"
  /\ w \in DOMAIN thread_pool
  /\ thread_pool[w].pc = "check"
  /\ thread_pool' = [thread_pool EXCEPT
       ![w].pc = IF target_attained \/ Cancelled THEN "done" ELSE "trial"]
  /\ UNCHANGED <<args, gen, cancellation, queries, current_minimum_cost,
                 population, cost, trial_vectors, target_attained, pc, locals,
                 outcome, calls, evaluated, caller>>

\* every cost that is not a finite number dropped
DiscardedNonFinite(tc) == ~isfinite(tc)
\* line 201
Discarded(tc) == isnan(tc)
\* every trial that is not NaN taken
SelectedAlways(tc, c) == TRUE
\* the comparison turned around
SelectedIfAbove(tc, c) == Less(c, tc) \/ isnan(c)
\* line 208
Selected(tc, c) == Less(tc, c) \/ isnan(c)

\* lines 200-213: the objective on the trial vector, and the selection; the
\* hint is read here and written in the worker's next step; line 216 is done
\* at once when the hint is not to be written
TrialEvaluate(w) ==
  /\ pc = "join"
  /\ w \in DOMAIN thread_pool
  /\ thread_pool[w].pc = "trial"
  /\ \E tc \in Outcomes(trial_vectors[thread_pool[w].i]) :
     LET s == thread_pool[w].i
     IN /\ calls' = calls + 1
        /\ cost_function' = Known(trial_vectors[s], tc)
        /\ evaluated' = Push(evaluated, <<trial_vectors[s], tc>>)
        /\ IF Discarded(tc)
           THEN /\ thread_pool' = [thread_pool EXCEPT ![w] = Advance(w, "check")]
                /\ UNCHANGED <<queries, cost, target_attained, population>>
           ELSE /\ queries' = Logged(trial_vectors[s], tc)
                /\ IF Selected(tc, cost[s])
                   THEN /\ cost' = [cost EXCEPT ![s] = tc]
                        /\ target_attained' = (target_attained \/ TargetReached(tc))
                        /\ IF HintLower(tc)
                           THEN /\ thread_pool' = [thread_pool EXCEPT
                                     ![w].pc = "trial_hint", ![w].trial_cost = tc]
                                /\ UNCHANGED population
                           ELSE /\ population' = [population EXCEPT ![s] = trial_vectors[s]]
                                /\ thread_pool' = [thread_pool EXCEPT ![w] = Advance(w, "check")]
                   ELSE /\ thread_pool' = [thread_pool EXCEPT ![w] = Advance(w, "check")]
                        /\ UNCHANGED <<cost, target_attained, population>>
  /\ UNCHANGED <<de_params, target_value, gen, cancellation,
                 current_minimum_cost, trial_vectors, pc, locals, outcome,
                 caller>>

\* the hint written and the trial vector not stored
TrialHintNoStore(w) ==
  /\ pc = "join"
  /\ w \in DOMAIN thread_pool
  /\ thread_pool[w].pc = "trial_hint"
  /\ current_minimum_cost' =
       [current_minimum_cost EXCEPT !.value = cost[thread_pool[w].i]]
  /\ thread_pool' = [thread_pool EXCEPT ![w] = Advance(w, "check")]
  /\ UNCHANGED <<args, gen, cancellation, queries, population, cost,
                 trial_vectors, target_attained, pc, locals, outcome, calls,
                 evaluated, caller>>
\* lines 214-216: the hint written, the trial vector stored in the population
TrialHint(w) ==
  /\ pc = "join"
  /\ w \in DOMAIN thread_pool
  /\ thread_pool[w].pc = "trial_hint"
  /\ LET s == thread_pool[w].i IN
       /\ current_minimum_cost' = [current_minimum_cost EXCEPT !.value = cost[s]]
       /\ population' = [population EXCEPT ![s] = trial_vectors[s]]
       /\ thread_pool' = [thread_pool EXCEPT ![w] = Advance(w, "check")]
  /\ UNCHANGED <<args, gen, cancellation, queries, cost, trial_vectors,
                 target_attained, pc, locals, outcome, calls, evaluated, caller>>

\* lines 221-224: the workers joined, the next generation
JoinTrials ==
  /\ pc = "join"
  /\ AllJoined
  /\ generation' = generation + 1
  /\ pc' = "loop"
  /\ UNCHANGED <<args, gen, cancellation, queries, current_minimum_cost,
                 population, cost, trial_vectors, target_attained,
                 thread_pool, i, j, r1, r2, r3, outcome, calls, evaluated,
                 caller>>

\* std::min_element over c[0..n-1]: the first index no later one is below
RECURSIVE MinScan(_, _, _)
MinScan(c, k, smallest) ==
  IF k > NP - 1 THEN smallest
  ELSE MinScan(c, k + 1, IF Less(c[k], c[smallest]) THEN k ELSE smallest)
min_element(c) == MinScan(c, 1, 0)

\* lines 226-227
Extract ==
  /\ pc = "extract"
  /\ it' = min_element(cost)
  /\ result' = population[it']
  /\ pc' = "done"
  /\ UNCHANGED <<args, gen, cancellation, queries, current_minimum_cost,
                 population, cost, trial_vectors, target_attained,
                 thread_pool, locals, thrown, calls, evaluated, caller>>

\* ------------------------------------------------------------ the caller
\* another thread of the caller sets the cancellation flag, at any time
\* before the call has returned
Cancel ==
  /\ cancellation.given /\ ~cancellation.flag
  /\ pc \notin {"done", "thrown"}
  /\ cancellation' = [cancellation EXCEPT !.flag = TRUE]
  /\ UNCHANGED <<args, gen, queries, current_minimum_cost, population, cost,
                 trial_vectors, target_attained, thread_pool, pc, locals,
                 outcome, calls, evaluated, caller>>
\* --------------------------------------------------------------- inputs
lower_bounds == [d \in 1..Dim |-> LowerBound]
upper_bounds == [d \in 1..Dim |-> UpperBound]
\* a wider box, one more grid point in every dimension
wider_bounds == [d \in 1..Dim |-> UpperBound + 1]

\* parameters validate_differential_evolution_parameters accepts
Parameters(uppers, crs, guesses, gens, ths) ==
  [lower_bounds : {lower_bounds}, upper_bounds : uppers,
   mutation_factor : {1}, crossover_probability : crs,
   NP : {4}, max_generations : gens, initial_guess : guesses, threads : ths]

\* parameters with any number of defects: malformed bounds, NP = 3, F of 0,
\* 1 or NaN, no generation, a guess outside the bounds or of another
\* dimension, no thread
AnyParameters ==
  [lower_bounds : {lower_bounds, upper_bounds},
   upper_bounds : {upper_bounds, <<UpperBound>>},
   mutation_factor : {0, 1, 2, NaN}, crossover_probability : {5},
   NP : {3, 4}, max_generations : {0, 1},
   initial_guess : {NoGuess, Guess([d \in 1..Dim |-> UpperBound + 1]),
                    Guess(<<LowerBound>>)},
   threads : {0, 1}]

NoHint == [given |-> FALSE, value |-> NaN]
Hint(v) == [given |-> TRUE, value |-> v]

\* the calls made: every seed with
\*   every thread count and generation budget, with and without a target;
\*   the same with a cancellation flag;
\*   one thread, with CR = 0, with CR = 1, with an initial guess;
\*   several threads, with a minimum-cost hint; no query log;
\*   defective parameters;
\*   more threads than slots;
\*   NP = 5, which two threads do not divide;
\*   an initial guess with several threads and a cancellation flag
Call(ps, gs, tvs, cancels, logs, hints) ==
  [p : ps, f : {<< >>}, g : gs, tv : tvs, cancel : cancels, log : logs,
   hint : hints]
Calls ==
  Call(Parameters({upper_bounds}, {5}, {NoGuess}, 1..MaxGenerations, 1..MaxThreads),
       Seeds, {NaN, 0}, {FALSE}, {TRUE}, {NoHint})
  \cup Call(Parameters({upper_bounds}, {5}, {NoGuess}, 1..MaxGenerations, 1..MaxThreads),
            Seeds, {NaN}, {TRUE}, {TRUE}, {NoHint})
  \cup Call(Parameters({upper_bounds}, {0, 10}, {NoGuess, Guess(upper_bounds)},
                       1..MaxGenerations, {1}),
            Seeds, {NaN, 0}, {FALSE}, {TRUE}, {NoHint})
  \cup Call(Parameters({upper_bounds}, {5}, {NoGuess}, {1}, 2..MaxThreads),
            Seeds, {NaN}, {FALSE}, {TRUE, FALSE}, {Hint(PosInf), Hint(0)})
  \cup Call(AnyParameters, {GenMin}, {NaN}, {FALSE}, {TRUE}, {NoHint})
  \cup Call(Parameters({upper_bounds}, {5}, {NoGuess}, {1}, {ManyThreads}),
            {GenMin}, {NaN}, {FALSE}, {TRUE}, {NoHint})
  \cup Call({[p EXCEPT !.NP = 5] :
              p \in Parameters({upper_bounds}, {5}, {NoGuess}, {1}, 1..MaxThreads)},
            {GenMin, GenMin + 1}, {NaN}, {FALSE}, {TRUE}, {NoHint})
  \cup Call(Parameters({upper_bounds}, {5}, {Guess(lower_bounds)}, {1}, 1..MaxThreads),
            {GenMin, GenMin + 1}, {NaN, 0}, {TRUE}, {TRUE}, {NoHint})

NoResult == [x |-> NoCandidate, cost |-> NaN]

\* the state when differential_evolution is entered
Entry(p, f, g, tv, cancel, log, hint) ==
  /\ de_params = p
  /\ cost_function = f
  /\ gen = g
  /\ seed = g
  /\ target_value = tv
  /\ cancellation = [given |-> cancel, flag |-> FALSE]
  /\ queries = [given |-> log, log |-> EmptyBag]
  /\ current_minimum_cost = hint
  /\ population = << >>
  /\ cost = << >>
  /\ trial_vectors = << >>
  /\ target_attained = FALSE
  /\ thread_pool = << >>
  /\ pc = "validate"
  /\ generation = 0 /\ i = 0 /\ j = 0 /\ r1 = 0 /\ r2 = 0 /\ r3 = 0
  /\ it = 0
  /\ result = NoCandidate
  /\ thrown = "none"
  /\ calls = 0
  /\ evaluated = EmptyBag
  /\ run = 1
  /\ first = NoResult

Init == \E c \in Calls : Entry(c.p, c.f, c.g, c.tv, c.cancel, c.log, c.hint)

\* the caller makes the call again: the same arguments, the generator seeded
\* as before, the same objective, a fresh log and hint
Repeat ==
  /\ pc = "done"
  /\ run = 1
  /\ run' = 2
  /\ first' = [x |-> result, cost |-> cost[it]]
  /\ gen' = seed
  /\ queries' = [queries EXCEPT !.log = EmptyBag]
  /\ current_minimum_cost' = [current_minimum_cost EXCEPT !.value = PosInf]
  /\ population' = << >>
  /\ cost' = << >>
  /\ trial_vectors' = << >>
  /\ target_attained' = FALSE
  /\ thread_pool' = << >>
  /\ pc' = "validate"
  /\ generation' = 0 /\ i' = 0 /\ j' = 0 /\ r1' = 0 /\ r2' = 0 /\ r3' = 0
  /\ it' = 0
  /\ result' = NoCandidate
  /\ calls' = 0
  /\ evaluated' = EmptyBag
  /\ UNCHANGED <<args, cancellation, thrown, seed>>

WorkerStep(w) ==
  \/ InitialEvaluate(w)
  \/ InitialHint(w)
  \/ TrialCheck(w)
  \/ TrialEvaluate(w)
  \/ TrialHint(w)

\* the steps of the call
Step ==
  \/ Validate
  \/ Populate
  \/ JoinInitial
  \/ LoopGuard
  \/ DrawR1
  \/ DrawR2
  \/ DrawR3
  \/ Crossover
  \/ SpawnTrials
  \/ JoinTrials
  \/ Extract
  \/ \E w \in 0..(ManyThreads - 1) : WorkerStep(w)

Next == Step \/ Cancel

Spec == Init /\ [][Next]_vars

\* repeated runs: calls whose cancellation flag is never set, each made
\* twice, on the wider box, with CR = 0 and CR = 1/2, and the objectives of
\* finite cost that are 0 on at most two candidates and 1 on the others
Objectives ==
  {[x \in Within(lower_bounds, wider_bounds) |-> IF x \in Z THEN 0 ELSE 1] :
     Z \in {S \in SUBSET Within(lower_bounds, wider_bounds) : Cardinality(S) <= 2}}
CallsRepeated ==
  [p : Parameters({wider_bounds}, {0, 5}, {NoGuess}, {1}, 1..MaxThreads),
   f : Objectives, g : Seeds, tv : {NaN, 0}, cancel : {FALSE}, log : {TRUE},
   hint : {NoHint, Hint(PosInf)}]
InitRepeat ==
  \E c \in CallsRepeated :
    Entry(c.p, c.f, c.g, c.tv, c.cancel, c.log, c.hint)
NextRepeat == Step \/ Repeat
SpecRepeat == InitRepeat /\ [][NextRepeat]_vars

\* ===================================================================== C1
\* C1: determinism.  With the same seed, parameters, thread count, target
\* and objective, and the cancellation flag never set, the second run of a
\* call returns the candidate and the cost the first run returned, however
\* the workers were scheduled in either.
ReturnedCost == cost[it]
Determinism ==
  (pc = "done" /\ run = 2) => (result = first.x /\ ReturnedCost = first.cost)

\* ===================================================================== C2
\* the slots whose cost is an evaluated one, not the NaN sentinel
EvaluatedSlots == {s \in DOMAIN cost : ~isnan(cost[s])}
\* slot k is the best found: no evaluated slot is below it, and none before
\* it is as low
BestFound(k) ==
  /\ \A s \in EvaluatedSlots : LessEq(cost[k], cost[s])
  /\ \A s \in EvaluatedSlots : s < k => Less(cost[k], cost[s])

\* C2: the returned candidate is the population slot of minimum cost in the
\* final cost vector, the lowest index among equals: no evaluated slot has a
\* lower cost than the returned one, also when slots still hold NaN.
ReturnsMinimumCost ==
  pc = "done" => (result = population[it] /\ BestFound(it))

\* ===================================================================== C3
\* a cost at or below the target sets the flag (a worker that is about to
\* write the hint tests the target right after)
TargetFlagged ==
  \A s \in DOMAIN cost :
    (/\ TargetReached(cost[s])
     /\ \A w \in DOMAIN thread_pool :
          ~(thread_pool[w].pc = "initial_hint" /\ thread_pool[w].i = s))
    => target_attained
\* no trial vectors are generated once the flag is set
NoGenerationAfterTarget ==
  pc \in {"r1", "r2", "r3", "crossover", "spawn"} => ~target_attained
\* the returned cost is at or below the target
ReturnedCostAttainsTarget ==
  (pc = "done" /\ target_attained) => LessEq(ReturnedCost, target_value)

\* C3: early stop.  With a target supplied, an evaluation of cost <= target
\* sets the target-attained flag, no generation begins after the phase that
\* set it, and the returned candidate's cost is <= target, for every
\* objective, one returning NaN included.
EarlyStop ==
  TargetFlagged /\ NoGenerationAfterTarget /\ ReturnedCostAttainsTarget

\* ===================================================================== C4
\* with the flag set the loop starts no generation
NoGenerationAfterCancel ==
  (Cancelled /\ pc = "loop") => pc' = "extract"
\* a worker that tests the flags with the flag set evaluates no more
WorkersStopOnCancel ==
  \A w \in DOMAIN thread_pool :
    (/\ Cancelled /\ pc = "join" /\ thread_pool[w].pc = "check"
     /\ w \in DOMAIN thread_pool')
    => thread_pool'[w].pc \in {"check", "done"}
\* a cancelled call returns the best candidate found
CancelledReturnsBest ==
  (pc' = "done" /\ Cancelled') => (result' = population'[it'] /\ BestFound(it)')

\* C4: cancellation.  Once the cancellation flag is set during the
\* generation loop no new generation begins, a trial-phase worker that sees
\* the flag issues no more evaluations, and the call returns the best
\* candidate found so far.
CancellationStops ==
  [][NoGenerationAfterCancel /\ WorkersStopOnCancel /\ CancelledReturnsBest]_vars

\* ===================================================================== C5
\* the lowest evaluated cost does not rise: every evaluated cost has one at
\* or below it after the step
MinimumNotRaised ==
  \A s \in EvaluatedSlots : \E t \in DOMAIN cost' : LessEq(cost'[t], cost[s])

\* C5: monotone improvement.  Once cost[i] holds an evaluated value no step
\* increases it, and the minimum cost over the population never increases.
MonotoneImprovement ==
  [][/\ \A s \in EvaluatedSlots : LessEq(cost'[s], cost[s])
     /\ MinimumNotRaised]_vars
\* a slot scored in the initial phase now holds a trial of lower cost
SlotImproved ==
  /\ pc = "done"
  /\ \E s \in EvaluatedSlots :
       LET x == initial_population(seed)[s] IN
         /\ x \in DOMAIN cost_function
         /\ ~isnan(cost_function[x])
         /\ Less(cost[s], cost_function[x])

\* ===================================================================== C6
\* what the claim calls a defective configuration
Defective(p) ==
  \/ BoundsError(p.lower_bounds, p.upper_bounds)
  \/ p.NP < 4
  \/ isnan(p.mutation_factor) \/ p.mutation_factor <= 0 \/ p.mutation_factor >= 2
  \/ p.max_generations < 1
  \/ p.threads = 0
  \/ (p.initial_guess.given
      /\ GuessError(p.initial_guess.x, p.lower_bounds, p.upper_bounds))
\* nothing was started, evaluated or returned
NoSideEffects ==
  /\ calls = 0 /\ evaluated = EmptyBag /\ queries.log = EmptyBag
  /\ thread_pool = << >> /\ population = << >>
  /\ result = NoCandidate

\* C6: a defective configuration (NP < 4, F <= 0, F >= 1 or NaN, no
\* generation, no thread, malformed bounds, invalid initial guess) raises a
\* configuration error before any worker starts and before the objective is
\* invoked, and the call returns nothing.
ConfigurationRejected ==
  /\ (Defective(de_params) /\ pc # "validate")
       => (pc = "thrown" /\ thrown # "none" /\ NoSideEffects)
  /\ pc = "thrown" => Defective(de_params)
\* a call with F = 1 has been rejected
RejectedCall ==
  pc = "thrown" /\ thrown = "domain_error" /\ de_params.mutation_factor = 2

\* ===================================================================== C7
InBounds(x) ==
  \A d \in 1..dimension :
    de_params.lower_bounds[d] <= x[d] /\ x[d] <= de_params.upper_bounds[d]
\* coordinate d of trial vector s has been generated
Generated(s, d) ==
  \/ generation >= 1
  \/ pc \in {"spawn", "join"}
  \/ pc \in {"r1", "r2", "r3", "crossover"} /\ s < i
  \/ pc = "crossover" /\ s = i /\ d <= j

\* C7: bound containment.  Every coordinate of every population member, of
\* every generated trial vector and of the returned candidate lies within
\* the bounds of its dimension.
BoundContainment ==
  /\ \A s \in DOMAIN population : InBounds(population[s])
  /\ \A s \in DOMAIN trial_vectors : \A d \in 1..dimension :
       Generated(s, d) =>
         /\ de_params.lower_bounds[d] <= trial_vectors[s][d]
         /\ trial_vectors[s][d] <= de_params.upper_bounds[d]
  /\ pc = "done" => InBounds(result)
\* a mutant coordinate outside the bounds was clamped into the trial vector
MutantClamped ==
  /\ pc = "crossover" /\ j = 1
  /\ Mutant(r1, r2, r3, 1) > de_params.upper_bounds[1]
  /\ trial_vectors[i][1] = de_params.upper_bounds[1]
  /\ population[i][1] # de_params.upper_bounds[1]

\* ===================================================================== C8
\* C8: log completeness.  With a query log supplied, the log of a returned
\* call holds exactly one (candidate, cost) entry for every evaluation of
\* the objective, of the initial phase and of every trial phase, whatever
\* the cost.
LogComplete ==
  (pc = "done" /\ queries.given) => queries.log = evaluated

\* ===================================================================== C9
\* worker w evaluates its trial vector in this step
Evaluates(w) ==
  /\ pc = "join" /\ w \in DOMAIN thread_pool
  /\ thread_pool[w].pc = "trial"
  /\ calls' = calls + 1
  /\ thread_pool'[w] # thread_pool[w]
\* the trial of slot s, of cost tc, replaces the parent: the cost at once,
\* the candidate at once or in the worker's next step, after the hint
Replaces(w, s, tc) ==
  /\ cost'[s] = tc
  /\ \/ population'[s] = trial_vectors[s]
     \/ thread_pool'[w].pc = "trial_hint" /\ population'[s] = population[s]
Retains(s) == cost'[s] = cost[s] /\ population'[s] = population[s]
\* the step of worker w replaces the parent if accept, and retains it if not
Selects(w, accept) ==
  LET s == thread_pool[w].i IN
    IF accept THEN Replaces(w, s, cost_function'[trial_vectors[s]])
    ELSE Retains(s)
TrialCost(w) == cost_function'[trial_vectors[thread_pool[w].i]]
ParentCost(w) == cost[thread_pool[w].i]
\* the worker that had the hint to write stores the trial vector
HintThenStore ==
  \A w \in DOMAIN thread_pool :
    (/\ pc = "join" /\ thread_pool[w].pc = "trial_hint"
     /\ w \in DOMAIN thread_pool' /\ thread_pool'[w] # thread_pool[w])
    => population'[thread_pool[w].i] = trial_vectors[thread_pool[w].i]

CrossoverGuarantee ==
  [][(pc = "crossover" /\ j + 1 = dimension /\ i' = i + 1)
       => \E d \in 1..dimension :
            trial_vectors'[i][d] = ClampedMutant(r1, r2, r3, d)]_vars

\* ==================================================================== C11
\* the worker that owns slot s
Owner(s) == s % threads
\* a running worker is at a slot of its own
AtOwnSlot ==
  \A w \in DOMAIN thread_pool :
    thread_pool[w].pc # "done" =>
      (thread_pool[w].i \in Slots /\ Owner(thread_pool[w].i) = w)
\* the slots whose cost or candidate this step writes
Written == {s \in DOMAIN cost : cost'[s] # cost[s] \/ population'[s] # population[s]}
\* a slot written during a phase is written by its owner, which is at it, and
\* no other worker moves in that step
WrittenByOwner ==
  pc \in {"join_initial", "join"} =>
    \A s \in Written :
      /\ thread_pool[Owner(s)].pc # "done" /\ thread_pool[Owner(s)].i = s
      /\ thread_pool'[Owner(s)] # thread_pool[Owner(s)]
      /\ \A w \in DOMAIN thread_pool \ {Owner(s)} : thread_pool'[w] = thread_pool[w]
\* once the initial phase is over every slot has been scored, and once only
AllSlotsScored ==
  (pc = "loop" /\ generation = 0) => calls = NP

\* C11: index isolation.  In both evaluation phases worker w reads and
\* writes only slots i with i mod threads = w, every slot has one worker
\* (also with more threads than slots, or a thread count that does not
\* divide NP), so no two workers touch the same cost or population slot.
IndexIsolation ==
  [][AtOwnSlot' /\ WrittenByOwner /\ AllSlotsScored']_vars
\* NP = 5 and two threads: worker 0 is at the last slot, which is its own,
\* while worker 1 is still at work in the trial phase
LastSlotOwned ==
  /\ NP = 5 /\ threads = 2 /\ pc = "join"
  /\ thread_pool[0].pc = "trial" /\ thread_pool[0].i = 4
  /\ thread_pool[1].pc = "trial"

\* ==================================================================== C12
NoWorkerRunning ==
  \A w \in DOMAIN thread_pool : thread_pool[w].pc = "done"
\* the calling thread is past a join only when no worker runs
PhaseBarrier ==
  pc \notin {"join_initial", "join"} => NoWorkerRunning
\* the generator is consumed and the trial vectors are written with no
\* worker running
SingleThreadedRandomness ==
  (gen' # gen \/ trial_vectors' # trial_vectors) => NoWorkerRunning

\* C12: phase barrier.  All workers of a phase have finished before the
\* calling thread starts the next phase; the generator is consumed and the
\* trial vectors are written only by the calling thread while no worker
\* runs; the minimum scan runs after the last workers are joined.
BarrierDiscipline ==
  [][/\ PhaseBarrier'
     /\ SingleThreadedRandomness
     /\ (pc = "extract" => NoWorkerRunning)]_vars
\* the second generation draws its first index, the two workers of the first
\* joined
SecondGenerationStarted ==
  /\ pc = "r2" /\ generation = 1 /\ threads = 2
  /\ NoWorkerRunning /\ calls = 2 * NP

\* ==================================================================== C13
\* the calling thread is at a barrier: no phase is under way
AtBarrier ==
  pc \in {"loop", "r1", "r2", "r3", "crossover", "spawn", "extract", "done"}
\* cost[s] is the sentinel or the objective's value at population[s]
CostOfCandidate(s) ==
  \/ isnan(cost[s])
  \/ /\ population[s] \in DOMAIN cost_function
     /\ cost[s] = cost_function[population[s]]

\* C13: cost/population consistency.  At every phase barrier and at return
\* cost[i] is the sentinel or the objective value of the candidate stored in
\* population[i]: an accepted trial updates both before the barrier.
CostPopulationConsistent ==
  AtBarrier => \A s \in DOMAIN cost : CostOfCandidate(s)
\* a call has returned with a slot holding an accepted trial and its cost,
\* which the worker also wrote to the hint
TrialStoredWithCost ==
  /\ pc = "done" /\ current_minimum_cost.given
  /\ \E s \in DOMAIN cost :
       /\ population[s] = trial_vectors[s]
       /\ population[s] # initial_population(seed)[s]
       /\ ~isnan(cost[s]) /\ current_minimum_cost.value = cost[s]

\* ==================================================================== C14
\* C14: mutation index distinctness.  The indices r1, r2, r3 that build the
\* mutant of slot i lie in 0..NP-1, are mutually distinct and differ from i.
IndicesDistinct ==
  pc = "crossover" =>
    /\ {r1, r2, r3} \subseteq Slots
    /\ Cardinality({i, r1, r2, r3}) = 4
\* with NP = 5 the three indices leave one other slot out, here slot 0
IndicesDrawn ==
  /\ pc = "crossover" /\ NP = 5 /\ i = 4
  /\ 0 \notin {r1, r2, r3}

\* ==================================================================== C15
\* the calls whose termination is checked: three seeds, every thread count
\* and generation budget with a cancellation flag the caller may set, with and
\* without a target; two threads with a hint; defective parameters
CallsFair ==
  Call(Parameters({upper_bounds}, {5}, {NoGuess}, 1..MaxGenerations, 1..MaxThreads),
       GenMin..(GenMin + 2), {NaN, 0}, {TRUE}, {FALSE}, {NoHint})
  \cup Call(Parameters({upper_bounds}, {5}, {NoGuess}, {1}, {MaxThreads}),
            {GenMin}, {NaN}, {FALSE}, {FALSE}, {Hint(PosInf)})
  \cup Call(AnyParameters, {GenMin}, {NaN}, {FALSE}, {FALSE}, {NoHint})
InitFair ==
  \E c \in CallsFair : Entry(c.p, c.f, c.g, c.tv, c.cancel, c.log, c.hint)
\* the call and its workers are scheduled fairly: a step that can be taken
\* is taken
SpecFair == InitFair /\ [][Next]_vars /\ WF_vars(Step)
Returned == pc \in {"done", "thrown"}

\* C15: termination.  With an objective that returns, fair scheduling and a
\* generator producing every residue modulo NP, the call eventually returns
\* (or throws, for invalid parameters), and never runs more than
\* max_generations generations.
Termination ==
  /\ <>Returned
  /\ [](generation <= de_params.max_generations)
\* a call with two threads has returned after all its generations
ReturnedAfterAllGenerations ==
  /\ pc = "done" /\ threads = 2 /\ ~Cancelled /\ ~target_attained
  /\ generation = MaxGenerations /\ generation = de_params.max_generations

\* ==================================================================== C16
\* worker w takes this step of the trial phase
Moves(w) ==
  /\ pc = "join" /\ w \in DOMAIN thread_pool
  /\ w \in DOMAIN thread_pool' /\ thread_pool'[w] # thread_pool[w]
\* the trial is rejected: its cost is NaN, or not below an evaluated parent's
Rejected(w) ==
  Evaluates(w) /\ (isnan(TrialCost(w))
                   \/ ~(Less(TrialCost(w), ParentCost(w)) \/ isnan(ParentCost(w))))
\* the trial is skipped: the worker saw a stop flag
Skipped(w) ==
  Moves(w) /\ thread_pool[w].pc = "check" /\ thread_pool'[w].pc = "done"

\* C16: slot lineage frame.  Processing slot i leaves every other slot's
\* candidate and cost unchanged; slot i receives nothing but its own trial
\* vector and that trial's cost; a rejected or skipped trial leaves
\* population[i] and cost[i] unchanged.
SlotFrame ==
  [][\A w \in DOMAIN thread_pool :
       Moves(w) =>
         LET s == thread_pool[w].i IN
           /\ \A t \in DOMAIN cost \ {s} :
                cost'[t] = cost[t] /\ population'[t] = population[t]
           /\ population'[s] \in {population[s], trial_vectors[s]}
           /\ cost'[s] # cost[s] => cost'[s] = cost_function'[trial_vectors[s]]
           /\ (Rejected(w) \/ Skipped(w)) => Retains(s)]_vars
\* a call has returned having rejected a trial of higher cost than its parent
TrialRejected ==
  /\ pc = "done" /\ generation = 1 /\ ~target_attained /\ ~Cancelled
  /\ \E s \in DOMAIN cost :
       /\ trial_vectors[s] \in DOMAIN cost_function
       /\ Less(cost[s], cost_function[trial_vectors[s]])
       /\ population[s] # trial_vectors[s]

\* ==================================================================== C17
\* C17: the hint is monotone.  With a current-minimum-cost hint supplied,
\* no step of a call raises its value, whatever the interleaving of the
\* workers, and at return it is at or below the cost of every slot.
HintMonotone ==
  [][current_minimum_cost.given =>
       /\ LessEq(current_minimum_cost'.value, current_minimum_cost.value)
       /\ pc' = "done" =>
            \A s \in DOMAIN cost' :
              isnan(cost'[s]) \/ LessEq(current_minimum_cost'.value, cost'[s])]_vars

\* ==================================================================== C18
\* C18: the full budget.  With target_value NaN the target-attained flag is
\* never set; if moreover the cancellation flag is absent or never set, the
\* call returns after exactly max_generations generations and exactly
\* NP * (1 + max_generations) invocations of the objective, whatever the
\* thread count and the schedule.
FullBudget ==
  /\ isnan(target_value) => ~target_attained
  /\ (pc = "done" /\ isnan(target_value) /\ ~Cancelled) =>
       /\ generation = de_params.max_generations
       /\ calls = NP * (1 + de_params.max_generations)
       /\ BagCardinality(evaluated) = calls
\* two threads have run two generations under a flag that was never set
FullBudgetSpent ==
  /\ pc = "done" /\ isnan(target_value)
  /\ cancellation.given /\ ~cancellation.flag
  /\ threads = 2 /\ de_params.max_generations = 2 /\ calls = 3 * NP

\* ==================================================================== C19
\* how many slots hold candidate x
SlotsHolding(x) == Cardinality({s \in DOMAIN population : population[s] = x})
\* every candidate of the population has been evaluated once per slot that
\* holds it, and nothing else has
ScoredOnce ==
  /\ calls = NP
  /\ \A s \in DOMAIN population :
       CopiesIn(<<population[s], cost[s]>>, evaluated) = SlotsHolding(population[s])
  /\ BagCardinality(evaluated) = NP
\* the generator has drawn the initial population and nothing since
NoTrialGenerated == gen = GenAfter(seed, NP * dimension)

\* C19: the initial phase polls no flag.  All NP initial candidates are
\* evaluated once, also with cancellation set from the start or the target
\* attained by the first evaluation; the loop then generates and evaluates
\* no trial, and the returned candidate is one of the initial population.
InitialPhaseComplete ==
  /\ (pc = "loop" /\ generation = 0) => ScoredOnce
  /\ (pc \in {"r1", "r2", "r3", "crossover", "spawn"} /\ generation = 0)
       => ~target_attained
  /\ (pc \in {"extract", "done"} /\ generation = 0) =>
       /\ Cancelled \/ target_attained
       /\ ScoredOnce /\ NoTrialGenerated
       /\ population = initial_population(seed)
  /\ (pc = "done" /\ generation = 0) =>
       \E s \in DOMAIN population : result = initial_population(seed)[s]
\* a call cancelled before its first evaluation has returned
CancelledFromTheStart ==
  /\ pc = "done" /\ generation = 0 /\ Cancelled /\ ~target_attained
  /\ threads = 2 /\ calls = NP

\* ==================================================================== C20
initial_guess == de_params.initial_guess
\* the initial guess has an evaluated cost
GuessEvaluated ==
  /\ initial_guess.given
  /\ initial_guess.x \in DOMAIN cost_function
  /\ ~isnan(cost_function[initial_guess.x])

\* C20: the initial guess bounds the result.  A supplied initial guess is in
\* slot 0 at initial scoring, and if its cost is an evaluated one the cost of
\* the returned candidate is at or below it, after any number of
\* generations and under early stop or cancellation.
GuessBoundsResult ==
  /\ (pc = "join_initial" /\ initial_guess.given) => population[0] = initial_guess.x
  /\ (pc = "done" /\ GuessEvaluated) =>
       LessEq(ReturnedCost, cost_function[initial_guess.x])
\* a cancelled call with a guess has returned another candidate, of lower cost
GuessImprovedOn ==
  /\ pc = "done" /\ GuessEvaluated /\ Cancelled
  /\ result # initial_guess.x
  /\ Less(ReturnedCost, cost_function[initial_guess.x])
====
